---- MODULE Spec2Model ----
(***************************************************************************)
(* Model of the stock record store of stock_api.py (class StockDatabase)   *)
(* and of the file it persists to.                                         *)
(*                                                                         *)
(* A Python value that may be None is a sequence of length <= 1: <<v>> is  *)
(* the value v, <<>> is None.  A symbol is a sequence of characters.  The  *)
(* file is a sequence of tokens; json.dump and json.loads are the          *)
(* operators dumps and loads over such sequences.  A dict is the sequence  *)
(* of its items in insertion order.                                        *)
(***************************************************************************)
EXTENDS Integers, Sequences, FiniteSets, TLC

\* ------------------------------------------------------------------ bounds
MaxIds == 2
MaxClock == 1
MaxCalls == 3
MaxConcCalls == 2
MaxToolCalls == 4
MaxStats == 3
MaxSurfaceCalls == 3
MaxSeedWrites == 10

\* ------------------------------------------------------- option values
None == <<>>
Some(v) == <<v>>

\* ------------------------------------------------------------- symbols
UpperChar(c) == CASE c = "a" -> "A" [] c = "b" -> "B" [] OTHER -> c

Upper(s) == [i \in DOMAIN s |-> UpperChar(s[i])]

Symbols == {<<>>, <<"a">>, <<"A">>, <<"B">>}

\* ----------------------------------------------------------- the models
UpdateFields == {"symbol", "name", "price", "change", "volume", "market_cap"}

\* StockCreate(...): the fields given, the defaults for those omitted.
StockCreate(symbol, name, price, opt) ==
    [symbol |-> symbol, name |-> name, price |-> price,
     change |-> IF "change" \in DOMAIN opt THEN opt.change ELSE 0,
     volume |-> IF "volume" \in DOMAIN opt THEN opt.volume ELSE 0,
     market_cap |-> IF "market_cap" \in DOMAIN opt THEN opt.market_cap ELSE 0]

\* StockUpdate(...): every field defaults to None; "set" is the fields the
\* caller passed (pydantic's fields_set), an explicit None included.
StockUpdate(given) ==
    [set |-> DOMAIN given,
     v |-> [f \in UpdateFields |-> IF f \in DOMAIN given THEN given[f] ELSE None]]

\* Stock(**stock): validation of a stored dict; no field may be None.
ValidStock(stock) == \A f \in UpdateFields : stock[f] # None

\* ------------------------------------------------------------- the file
LBrace == [t |-> "{"]
RBrace == [t |-> "}"]
LBracket == [t |-> "["]
RBracket == [t |-> "]"]
Garbage == [t |-> "garbage"]
BadBytes == [t |-> "badbytes"]
Space == [t |-> " "]
Item(key, val) == [t |-> "item", key |-> key, val |-> val]

RECURSIVE ItemTokens(_)
ItemTokens(data) ==
    IF data = <<>> THEN <<>>
    ELSE <<Item(data[1].key, data[1].val)>> \o ItemTokens(Tail(data))

\* json.dump(data, f, indent=2, ensure_ascii=False)
dumps(data) == <<LBrace>> \o ItemTokens(data) \o <<RBrace>>

IsObjectText(c) ==
    /\ Len(c) >= 2
    /\ c[1] = LBrace
    /\ c[Len(c)] = RBrace
    /\ \A i \in 2..(Len(c) - 1) : c[i].t = "item"

IsArrayText(c) == c = <<LBracket, RBracket>>

\* json.loads(content)
loads(c) ==
    IF IsObjectText(c)
    THEN [exc |-> "", isdict |-> TRUE,
          items |-> [i \in 1..(Len(c) - 2) |-> [key |-> c[i + 1].key, val |-> c[i + 1].val]]]
    ELSE IF IsArrayText(c)
    THEN [exc |-> "", isdict |-> FALSE, items |-> <<>>]
    ELSE [exc |-> "JSONDecodeError", isdict |-> FALSE, items |-> <<>>]

EmptyDict == [exc |-> "", isdict |-> TRUE, items |-> <<>>]

\* str.strip(): leading and trailing whitespace removed
RECURSIVE lstrip(_)
lstrip(c) == IF c # <<>> /\ c[1] = Space THEN lstrip(Tail(c)) ELSE c

RECURSIVE rstrip(_)
rstrip(c) ==
    IF c # <<>> /\ c[Len(c)] = Space THEN rstrip(SubSeq(c, 1, Len(c) - 1)) ELSE c

strip(c) == rstrip(lstrip(c))

\* StockDatabase._load_data: FileNotFoundError and JSONDecodeError give {},
\* an empty or blank file gives {}, any other error propagates.
load_data(f) ==
    IF ~f.exists THEN EmptyDict
    ELSE IF \E i \in DOMAIN f.content : f.content[i] = BadBytes
    THEN [exc |-> "UnicodeDecodeError", isdict |-> FALSE, items |-> <<>>]
    ELSE LET content == strip(f.content) IN
         IF content = <<>> THEN EmptyDict
         ELSE LET d == loads(content) IN
              IF d.exc = "JSONDecodeError" THEN EmptyDict ELSE d

\* StockDatabase._save_data
save_data(f, data) == [exists |-> TRUE, content |-> dumps(data)]

\* ------------------------------------------------------- dict helpers
Keys(items) == {items[i].key : i \in DOMAIN items}

Lookup(items, key) == items[CHOOSE i \in DOMAIN items : items[i].key = key].val

\* data[key] = val: in place when the key is there, appended when it is not
SetItem(items, key, val) ==
    IF key \in Keys(items)
    THEN [i \in DOMAIN items |->
            IF items[i].key = key THEN [key |-> key, val |-> val] ELSE items[i]]
    ELSE Append(items, [key |-> key, val |-> val])

\* del data[key]
DelItem(items, key) == SelectSeq(items, LAMBDA it : it.key # key)

Values(items) == [i \in DOMAIN items |-> items[i].val]

\* ------------------------------------------------------------ results
Ret(kind, val) == [kind |-> kind, val |-> val]

Raise(exc) == [write |-> FALSE, data |-> <<>>, ret |-> Ret(exc, <<>>)]

Return(kind, val) == [write |-> FALSE, data |-> <<>>, ret |-> Ret(kind, val)]

\* Stock(**stock) as the value returned: the model, or a ValidationError
StockOrError(stock) ==
    IF ValidStock(stock) THEN Ret("Stock", <<stock>>) ELSE Ret("ValidationError", <<>>)

\* ------------------------------------------------------- create_stock
\* the loop of create_stock: the stored symbol against the symbol as given
SymbolTaken(items, symbol) ==
    \E i \in DOMAIN items : items[i].val.symbol = Some(symbol)

\* mutant: the symbol stored as it was given
NewStock_AsGiven(stock_data, stock_id, now) ==
    [id |-> stock_id,
     symbol |-> Some(stock_data.symbol),
     name |-> Some(stock_data.name),
     price |-> Some(stock_data.price),
     change |-> Some(stock_data.change),
     volume |-> Some(stock_data.volume),
     market_cap |-> Some(stock_data.market_cap),
     created_at |-> now,
     updated_at |-> now]

NewStock(stock_data, stock_id, now) ==
    [id |-> stock_id,
     symbol |-> Some(Upper(stock_data.symbol)),
     name |-> Some(stock_data.name),
     price |-> Some(stock_data.price),
     change |-> Some(stock_data.change),
     volume |-> Some(stock_data.volume),
     market_cap |-> Some(stock_data.market_cap),
     created_at |-> now,
     updated_at |-> now]

\* mutant: the id taken from the number of records, not from uuid4
create_body_CountId(d, stock_data, stock_id, now) ==
    IF d.exc # "" THEN Raise(d.exc)
    ELSE IF ~d.isdict THEN Raise("AttributeError")
    ELSE IF SymbolTaken(d.items, stock_data.symbol) THEN Raise("ValueError")
    ELSE LET stock == NewStock(stock_data, Len(d.items) + 1, now) IN
         [write |-> TRUE,
          data |-> SetItem(d.items, Len(d.items) + 1, stock),
          ret |-> Ret("Stock", <<stock>>)]

\* create_stock between its load and its save
create_body(d, stock_data, stock_id, now) ==
    IF d.exc # "" THEN Raise(d.exc)
    ELSE IF ~d.isdict THEN Raise("AttributeError")
    ELSE IF SymbolTaken(d.items, stock_data.symbol) THEN Raise("ValueError")
    ELSE LET stock == NewStock(stock_data, stock_id, now) IN
         [write |-> TRUE,
          data |-> SetItem(d.items, stock_id, stock),
          ret |-> Ret("Stock", <<stock>>)]

\* a handler: load, body, save when the body got that far
Handler(f, b) ==
    [file |-> IF b.write THEN save_data(f, b.data) ELSE f, ret |-> b.ret, wrote |-> b.write]

create_stock(f, stock_data, stock_id, now) ==
    Handler(f, create_body(load_data(f), stock_data, stock_id, now))

\* ------------------------------------------------------- update_stock
Truthy(x) == x # None /\ x[1] # <<>>

\* the duplicate loop of update_stock, in dict order: the first other record
\* decides, by a match or by a symbol that has no upper()
RECURSIVE ScanDuplicate(_, _, _)
ScanDuplicate(items, stock_id, symbol) ==
    IF items = <<>> THEN ""
    ELSE IF items[1].key = stock_id THEN ScanDuplicate(Tail(items), stock_id, symbol)
    ELSE IF items[1].val.symbol = None THEN "AttributeError"
    ELSE IF Upper(items[1].val.symbol[1]) = Upper(symbol) THEN "ValueError"
    ELSE ScanDuplicate(Tail(items), stock_id, symbol)

\* mutant: update_data.dict() without exclude_unset, every field overwritten
ApplyField_AllFields(stock, update_data, field) ==
    IF field = "symbol" /\ Truthy(update_data.v[field])
    THEN Some(Upper(update_data.v[field][1]))
    ELSE update_data.v[field]

\* for field, value in update_dict.items(): ...
ApplyField(stock, update_data, field) ==
    IF field \notin update_data.set THEN stock[field]
    ELSE IF field = "symbol" /\ Truthy(update_data.v[field])
    THEN Some(Upper(update_data.v[field][1]))
    ELSE update_data.v[field]

ApplyUpdate(stock, update_data, now) ==
    [id |-> stock.id,
     symbol |-> ApplyField(stock, update_data, "symbol"),
     name |-> ApplyField(stock, update_data, "name"),
     price |-> ApplyField(stock, update_data, "price"),
     change |-> ApplyField(stock, update_data, "change"),
     volume |-> ApplyField(stock, update_data, "volume"),
     market_cap |-> ApplyField(stock, update_data, "market_cap"),
     created_at |-> stock.created_at,
     updated_at |-> now]

DuplicateCheck(items, stock_id, update_data) ==
    IF Truthy(update_data.v.symbol)
    THEN ScanDuplicate(items, stock_id, update_data.v.symbol[1])
    ELSE ""

\* mutant: the duplicate check made before the id is looked up
update_body_CheckFirst(d, stock_id, update_data, now) ==
    IF d.exc # "" THEN Raise(d.exc)
    ELSE LET dup == DuplicateCheck(d.items, stock_id, update_data) IN
         IF dup # "" THEN Raise(dup)
         ELSE IF stock_id \notin Keys(d.items) THEN Return("None", <<>>)
         ELSE LET stock == ApplyUpdate(Lookup(d.items, stock_id), update_data, now) IN
              [write |-> TRUE,
               data |-> SetItem(d.items, stock_id, stock),
               ret |-> StockOrError(stock)]

\* update_stock between its load and its save; the returned Stock(**stock)
\* is validated after the save
update_body(d, stock_id, update_data, now) ==
    IF d.exc # "" THEN Raise(d.exc)
    ELSE IF stock_id \notin Keys(d.items) THEN Return("None", <<>>)
    ELSE LET dup == DuplicateCheck(d.items, stock_id, update_data) IN
         IF dup # "" THEN Raise(dup)
         ELSE LET stock == ApplyUpdate(Lookup(d.items, stock_id), update_data, now) IN
              [write |-> TRUE,
               data |-> SetItem(d.items, stock_id, stock),
               ret |-> StockOrError(stock)]

update_stock(f, stock_id, update_data, now) ==
    Handler(f, update_body(load_data(f), stock_id, update_data, now))

\* ------------------------------------------------------- delete_stock
delete_body(d, stock_id) ==
    IF d.exc # "" THEN Raise(d.exc)
    ELSE IF stock_id \notin Keys(d.items) THEN Return("False", <<>>)
    ELSE [write |-> TRUE, data |-> DelItem(d.items, stock_id), ret |-> Ret("True", <<>>)]

delete_stock(f, stock_id) == Handler(f, delete_body(load_data(f), stock_id))

\* ---------------------------------------------------------- the reads
get_all_stocks(f) ==
    LET d == load_data(f) IN
    IF d.exc # "" THEN Ret(d.exc, <<>>)
    ELSE IF ~d.isdict THEN Ret("AttributeError", <<>>)
    ELSE IF \E i \in DOMAIN d.items : ~ValidStock(d.items[i].val)
    THEN Ret("ValidationError", <<>>)
    ELSE Ret("List", Values(d.items))

get_stock(f, stock_id) ==
    LET d == load_data(f) IN
    IF d.exc # "" THEN Ret(d.exc, <<>>)
    ELSE IF stock_id \notin Keys(d.items) THEN Ret("None", <<>>)
    ELSE StockOrError(Lookup(d.items, stock_id))

\* the loop of get_stock_by_symbol, in dict order
RECURSIVE ScanSymbol(_, _)
ScanSymbol(items, symbol) ==
    IF items = <<>> THEN Ret("None", <<>>)
    ELSE IF items[1].val.symbol = None THEN Ret("AttributeError", <<>>)
    ELSE IF Upper(items[1].val.symbol[1]) = Upper(symbol) THEN StockOrError(items[1].val)
    ELSE ScanSymbol(Tail(items), symbol)

get_stock_by_symbol(f, symbol) ==
    LET d == load_data(f) IN
    IF d.exc # "" THEN Ret(d.exc, <<>>)
    ELSE IF ~d.isdict THEN Ret("AttributeError", <<>>)
    ELSE ScanSymbol(d.items, symbol)

\* ------------------------------------------------------------ the stats
\* sum(... for stock in stocks)
RECURSIVE sum(_)
sum(xs) == IF xs = <<>> THEN 0 ELSE xs[1] + sum(Tail(xs))

prices(stocks) == [i \in DOMAIN stocks |-> stocks[i].price[1]]

market_caps(stocks) == [i \in DOMAIN stocks |-> stocks[i].market_cap[1]]

\* round(num / den, 2) for den > 0, in hundredths: the nearest hundredth, the
\* even one when two are as near
round(num, den) ==
    LET q == (100 * num) \div den
        r == (100 * num) % den
    IN IF 2 * r > den \/ (2 * r = den /\ q % 2 = 1) THEN q + 1 ELSE q

\* mutant: max keeping the last of the records with the highest price
RECURSIVE max_Last(_, _)
max_Last(best, stocks) ==
    IF stocks = <<>> THEN best
    ELSE max_Last(IF stocks[1].price[1] >= best.price[1] THEN stocks[1] ELSE best,
                  Tail(stocks))

\* max(stocks, key=lambda x: x.price) from the record best on: a later record
\* replaces it only with a higher price
RECURSIVE max(_, _)
max(best, stocks) ==
    IF stocks = <<>> THEN best
    ELSE max(IF stocks[1].price[1] > best.price[1] THEN stocks[1] ELSE best, Tail(stocks))

\* min(stocks, key=lambda x: x.price)
RECURSIVE min(_, _)
min(best, stocks) ==
    IF stocks = <<>> THEN best
    ELSE min(IF stocks[1].price[1] < best.price[1] THEN stocks[1] ELSE best, Tail(stocks))

\* mutant: the empty result with the two symbol fields, as None
get_stats_SymbolFields(f) ==
    LET r == get_all_stocks(f) IN
    IF r.kind # "List" THEN r
    ELSE LET stocks == r.val IN
         IF stocks = <<>>
         THEN Ret("Stats", [total_count |-> 0, avg_price |-> 0, total_market_cap |-> 0,
                            max_price |-> None, min_price |-> None])
         ELSE LET total_count == Len(stocks) IN
              Ret("Stats",
                  [total_count |-> total_count,
                   avg_price |-> round(sum(prices(stocks)), total_count),
                   total_market_cap |-> sum(market_caps(stocks)),
                   max_price |-> max(stocks[1], Tail(stocks)).symbol[1],
                   min_price |-> min(stocks[1], Tail(stocks)).symbol[1]])

\* GET /stats of stock_api.py
get_stats(f) ==
    LET r == get_all_stocks(f) IN
    IF r.kind # "List" THEN r
    ELSE LET stocks == r.val IN
         IF stocks = <<>>
         THEN Ret("Stats", [total_count |-> 0, avg_price |-> 0, total_market_cap |-> 0])
         ELSE LET total_count == Len(stocks) IN
              Ret("Stats",
                  [total_count |-> total_count,
                   avg_price |-> round(sum(prices(stocks)), total_count),
                   total_market_cap |-> sum(market_caps(stocks)),
                   max_price |-> max(stocks[1], Tail(stocks)).symbol[1],
                   min_price |-> min(stocks[1], Tail(stocks)).symbol[1]])

\* the keys of the stats dict in the order the code writes them: the count,
\* the average price, the total market cap, the highest price, the lowest
StatsKeys == <<"total_count", "avg_price", "total_market_cap", "max_price", "min_price">>

\* json.dumps(stats, ensure_ascii=False, indent=2): the text of the dict, its
\* items in their order
json_dumps(stats) ==
    LET keys == SelectSeq(StatsKeys, LAMBDA k : k \in DOMAIN stats) IN
    dumps([i \in DOMAIN keys |-> [key |-> keys[i], val |-> stats[keys[i]]]])

\* the resource stock://stats of stock_mcp_server.py: the stats as JSON text
get_stats_resource(f) ==
    LET r == get_all_stocks(f) IN
    IF r.kind # "List" THEN r
    ELSE LET stocks == r.val IN
         IF stocks = <<>>
         THEN Ret("Text",
                  json_dumps([total_count |-> 0, avg_price |-> 0, total_market_cap |-> 0]))
         ELSE LET total_count == Len(stocks) IN
              Ret("Text",
                  json_dumps(
                      [total_count |-> total_count,
                       avg_price |-> round(sum(prices(stocks)), total_count),
                       total_market_cap |-> sum(market_caps(stocks)),
                       max_price |-> max(stocks[1], Tail(stocks)).symbol[1],
                       min_price |-> min(stocks[1], Tail(stocks)).symbol[1]]))

\* mutant: the tool's copy of the computation with the average cut off after
\* two decimals
get_stock_stats_tool_Truncated(f) ==
    LET r == get_all_stocks(f) IN
    IF r.kind # "List" THEN r
    ELSE LET stocks == r.val IN
         IF stocks = <<>>
         THEN Ret("Dict", [success |-> TRUE,
                           stats |-> [total_count |-> 0, avg_price |-> 0,
                                      total_market_cap |-> 0]])
         ELSE LET total_count == Len(stocks) IN
              Ret("Dict",
                  [success |-> TRUE,
                   stats |-> [total_count |-> total_count,
                              avg_price |-> (100 * sum(prices(stocks))) \div total_count,
                              total_market_cap |-> sum(market_caps(stocks)),
                              max_price |-> max(stocks[1], Tail(stocks)).symbol[1],
                              min_price |-> min(stocks[1], Tail(stocks)).symbol[1]]])

\* the tool get_stock_stats of stock_mcp_server.py
get_stock_stats_tool(f) ==
    LET r == get_all_stocks(f) IN
    IF r.kind # "List" THEN r
    ELSE LET stocks == r.val IN
         IF stocks = <<>>
         THEN Ret("Dict", [success |-> TRUE,
                           stats |-> [total_count |-> 0, avg_price |-> 0,
                                      total_market_cap |-> 0]])
         ELSE LET total_count == Len(stocks) IN
              Ret("Dict",
                  [success |-> TRUE,
                   stats |-> [total_count |-> total_count,
                              avg_price |-> round(sum(prices(stocks)), total_count),
                              total_market_cap |-> sum(market_caps(stocks)),
                              max_price |-> max(stocks[1], Tail(stocks)).symbol[1],
                              min_price |-> min(stocks[1], Tail(stocks)).symbol[1]]])

\* ------------------------------------------------------------ inputs
\* the ids a caller may name: those issued so far, those of the file, and
\* one never issued
NoSuchId == 0

Ids(issued, f) == 1..(issued - 1) \cup Keys(load_data(f).items) \cup {NoSuchId}

\* StockCreate bodies: the three optional fields omitted, or all given
CreateInputs ==
    {StockCreate(s, "x", 1, <<>>) : s \in Symbols}
    \cup {StockCreate(<<"B">>, "y", 2, [change |-> 1, volume |-> 4, market_cap |-> 9])}

\* StockUpdate bodies of the HTTP surface: the fields present in the request
OneField ==
    {("symbol" :> Some(s)) : s \in {<<>>, <<"a">>, <<"B">>}}
    \cup {("name" :> Some("")),
          ("price" :> Some(3)), ("price" :> Some(0)), ("price" :> None)}

\* StockUpdate as update_stock_tool builds it: all six fields passed, the
\* parameters the caller left out as None
ToolGiven(symbol, price) ==
    [symbol |-> symbol, name |-> None, price |-> price,
     change |-> None, volume |-> None, market_cap |-> None]

Patches ==
    {StockUpdate(g) : g \in OneField}
    \cup {StockUpdate(<<>>), StockUpdate(ToolGiven(None, Some(3)))}

\* ------------------------------------------------------ state machine
VARIABLES
    file,      \* stocks.txt: [exists, content]
    clock,     \* what datetime.now() returns
    nextId,    \* the next uuid4, as a counter: every id is fresh
    writes,    \* number of saves so far
    call,      \* the last call made: [op, id, symbol, arg, now]
    ret,       \* what the last call returned or raised
    before,    \* the file as the last call found it
    proc       \* per store instance, the call it is in the middle of

vars == <<file, clock, nextId, writes, call, ret, before, proc>>

\* the two store instances over stocks.txt: db of stock_api.py and stock_db
\* of stock_mcp_server.py
Instances == {"db", "stock_db"}

Idle == [pc |-> "idle", op |-> "", id |-> NoSuchId, buf |-> <<>>, pos |-> 0,
         ret |-> Ret("None", <<>>)]

NoFile == [exists |-> FALSE, content |-> <<>>]

Call(op, id, symbol, arg) ==
    [op |-> op, id |-> id, symbol |-> symbol, arg |-> arg, now |-> clock]

\* StockDatabase.__init__ on a path with no file: _ensure_file_exists saves {}
Init ==
    /\ file = save_data(NoFile, <<>>)
    /\ clock = 0
    /\ nextId = 1
    /\ writes = 0
    /\ call = [op |-> "init", id |-> NoSuchId, symbol |-> <<>>, arg |-> <<>>, now |-> 0]
    /\ ret = Ret("None", <<>>)
    /\ before = NoFile
    /\ proc = [p \in Instances |-> Idle]

Tick ==
    /\ clock < MaxClock
    /\ clock' = clock + 1
    /\ UNCHANGED <<file, nextId, writes, call, ret, before, proc>>

\* datetime.now() is the local wall clock: it is set back at the end of
\* daylight saving time and by a clock adjustment
ClockSetBack ==
    /\ clock > 0
    /\ clock' = clock - 1
    /\ UNCHANGED <<file, nextId, writes, call, ret, before, proc>>

Finish(r, c) ==
    /\ file' = r.file
    /\ ret' = r.ret
    /\ call' = c
    /\ before' = file
    /\ writes' = IF r.wrote THEN writes + 1 ELSE writes
    /\ UNCHANGED <<clock, proc>>

CreateStock ==
    \E stock_data \in CreateInputs :
        /\ writes < MaxCalls
        /\ nextId <= MaxIds
        /\ LET r == create_stock(file, stock_data, nextId, clock) IN
           /\ Finish(r, Call("create_stock", nextId, stock_data.symbol, <<stock_data>>))
           /\ nextId' = IF r.ret.kind = "Stock" THEN nextId + 1 ELSE nextId

UpdateStock ==
    \E stock_id \in Ids(nextId, file), update_data \in Patches :
        /\ writes < MaxCalls
        /\ Finish(update_stock(file, stock_id, update_data, clock),
                Call("update_stock", stock_id, <<>>, <<update_data>>))
        /\ UNCHANGED nextId

DeleteStock ==
    \E stock_id \in Ids(nextId, file) :
        /\ writes < MaxCalls
        /\ Finish(delete_stock(file, stock_id), Call("delete_stock", stock_id, <<>>, <<>>))
        /\ UNCHANGED nextId

Read(r, c) ==
    /\ ret' = r
    /\ call' = c
    /\ before' = file
    /\ UNCHANGED <<file, clock, nextId, writes, proc>>

GetAllStocks == Read(get_all_stocks(file), Call("get_all_stocks", NoSuchId, <<>>, <<>>))

GetStock ==
    \E stock_id \in Ids(nextId, file) :
        Read(get_stock(file, stock_id), Call("get_stock", stock_id, <<>>, <<>>))

GetStockBySymbol ==
    \E symbol \in Symbols :
        Read(get_stock_by_symbol(file, symbol), Call("get_stock_by_symbol", NoSuchId, symbol, <<>>))

\* the store driven through its mutating calls, one call at a time
Next ==
    \/ Tick
    \/ CreateStock
    \/ UpdateStock
    \/ DeleteStock

Spec == Init /\ [][Next]_vars

\* the same calls under a wall clock that is also set back
NextClock ==
    \/ Tick
    \/ ClockSetBack
    \/ CreateStock
    \/ UpdateStock
    \/ DeleteStock

SpecClock == Init /\ [][NextClock]_vars

\* --------------------------------------- the store behind the MCP tools
\* create_stock_tool passes all six parameters, the optional ones at their
\* defaults when the caller left them out
ToolCreateInputs ==
    {StockCreate(s, "x", 1, [change |-> 0, volume |-> 0, market_cap |-> 0]) :
        s \in {<<"a">>, <<"A">>, <<"B">>}}

\* update_stock_tool called with only price, or only symbol
ToolPatches ==
    {StockUpdate(ToolGiven(None, Some(3))), StockUpdate(ToolGiven(Some(<<"a">>), None))}

ToolCreate ==
    \E stock_data \in ToolCreateInputs :
        /\ writes < MaxToolCalls
        /\ nextId <= MaxIds
        /\ LET r == create_stock(file, stock_data, nextId, clock) IN
           /\ Finish(r, Call("create_stock", nextId, stock_data.symbol, <<stock_data>>))
           /\ nextId' = IF r.ret.kind = "Stock" THEN nextId + 1 ELSE nextId

ToolUpdate ==
    \E stock_id \in Ids(nextId, file), update_data \in ToolPatches :
        /\ writes < MaxToolCalls
        /\ Finish(update_stock(file, stock_id, update_data, clock),
                  Call("update_stock", stock_id, <<>>, <<update_data>>))
        /\ UNCHANGED nextId

\* delete_stock_tool: get_stock first, delete_stock when it returned a stock
ToolDelete ==
    \E stock_id \in Ids(nextId, file) :
        /\ writes < MaxToolCalls
        /\ LET found == get_stock(file, stock_id) IN
           IF found.kind = "Stock"
           THEN Finish(delete_stock(file, stock_id),
                       Call("delete_stock", stock_id, <<>>, <<>>))
           ELSE /\ ret' = found
                /\ call' = Call("get_stock", stock_id, <<>>, <<>>)
                /\ before' = file
                /\ UNCHANGED <<file, clock, writes, proc>>
        /\ UNCHANGED nextId

NextTool ==
    \/ ToolCreate
    \/ ToolUpdate
    \/ ToolDelete

SpecTool == Init /\ [][NextTool]_vars

\* ------------------------------------------- the store on a file it finds
\* records an earlier run left in the file
OldStock(n, symbol, price) == NewStock(StockCreate(symbol, "old", price, <<>>), 0 - n, 0)

OldData ==
    {<<>>,
     <<[key |-> 0 - 1, val |-> OldStock(1, <<"A">>, 1)]>>,
     <<[key |-> 0 - 1, val |-> OldStock(1, <<"A">>, 1)],
       [key |-> 0 - 2, val |-> OldStock(2, <<"B">>, 2)]>>}

\* what stocks.txt may hold when a call opens it: written by an earlier run
\* (with or without a trailing newline), cut short, empty, blank, not JSON,
\* JSON that is no object, not UTF-8
FileContents ==
    {dumps(d) : d \in OldData}
    \cup {dumps(d) \o <<Space>> : d \in OldData}
    \cup {SubSeq(dumps(d), 1, Len(dumps(d)) - 1) : d \in OldData}
    \cup {<<>>, <<Space>>, <<Garbage>>, <<LBracket, RBracket>>, <<BadBytes>>}

InitFile ==
    /\ file \in {NoFile} \cup {[exists |-> TRUE, content |-> c] : c \in FileContents}
    /\ clock = 0
    /\ nextId = 1
    /\ writes = MaxCalls - 1
    /\ call = [op |-> "init", id |-> NoSuchId, symbol |-> <<>>, arg |-> <<>>, now |-> 0]
    /\ ret = Ret("None", <<>>)
    /\ before = NoFile
    /\ proc = [p \in Instances |-> Idle]

\* the reads, and the first mutating call, on the file found
NextFile ==
    \/ GetAllStocks
    \/ GetStock
    \/ GetStockBySymbol
    \/ CreateStock
    \/ UpdateStock
    \/ DeleteStock

SpecFile == InitFile /\ [][NextFile]_vars

\* ------------------------------------------- the stats of a record set
\* the n-th record of a store an earlier run filled
StatsStock(n, p) ==
    NewStock(StockCreate(<<<<"A", "B", "C", "D">>[n]>>, "old", p,
                         [change |-> 0, volume |-> n, market_cap |-> n * n + p]),
             0 - n, 0)

StatsPrices == {0, 1, 2}

\* the record sets of one to MaxStats records, and one whose second record an
\* update left with price None
StatsData ==
    UNION {{[n \in 1..k |-> [key |-> 0 - n, val |-> StatsStock(n, ps[n])]] :
                ps \in [1..k -> StatsPrices]} : k \in 0..MaxStats}
    \cup {<<[key |-> 0 - 1, val |-> StatsStock(1, 1)],
            [key |-> 0 - 2, val |-> [StatsStock(2, 2) EXCEPT !.price = None]]>>}

InitStats ==
    /\ file \in {save_data(NoFile, data) : data \in StatsData}
    /\ clock = 0
    /\ nextId = 1
    /\ writes = 0
    /\ call = [op |-> "init", id |-> NoSuchId, symbol |-> <<>>, arg |-> <<>>, now |-> 0]
    /\ ret = Ret("None", <<>>)
    /\ before = NoFile
    /\ proc = [p \in Instances |-> Idle]

GetStats == Read(get_stats(file), Call("get_stats", NoSuchId, <<>>, <<>>))

GetStatsResource ==
    Read(get_stats_resource(file), Call("get_stats_resource", NoSuchId, <<>>, <<>>))

GetStockStatsTool ==
    Read(get_stock_stats_tool(file), Call("get_stock_stats_tool", NoSuchId, <<>>, <<>>))

\* the three entry points of the stats, between deletes
NextStats ==
    \/ GetStats
    \/ GetStatsResource
    \/ GetStockStatsTool
    \/ DeleteStock

SpecStats == InitStats /\ [][NextStats]_vars

\* ------------------------------------------- the HTTP API of stock_api.py
USERNAME == "admin"

PASSWORD == "admin"

\* mutant: the gate passing a request that has the right username
authenticate_user_UsernameOnly(credentials) ==
    IF credentials = None THEN Ret("401", <<"Not authenticated">>)
    ELSE IF credentials[1].username # USERNAME
    THEN Ret("401", <<"wrong username or password">>)
    ELSE Ret("ok", <<credentials[1].username>>)

\* Depends(security) and authenticate_user: credentials is None when the
\* request has no Basic Authorization header that HTTPBasic can read
authenticate_user(credentials) ==
    IF credentials = None THEN Ret("401", <<"Not authenticated">>)
    ELSE LET is_correct_username == credentials[1].username = USERNAME
             is_correct_password == credentials[1].password = PASSWORD
         IN IF ~(is_correct_username /\ is_correct_password)
            THEN Ret("401", <<"wrong username or password">>)
            ELSE Ret("ok", <<credentials[1].username>>)

\* what `except ValueError` catches: pydantic's ValidationError and
\* UnicodeDecodeError are ValueErrors
IsValueError(kind) == kind \in {"ValueError", "ValidationError", "UnicodeDecodeError"}

\* str(e): the only ValueError the store raises itself says that the symbol
\* already exists
str(kind) == IF kind = "ValueError" THEN "already exists" ELSE kind

\* an exception no handler catches: the server answers 500
Unhandled(r) == Ret("500", <<r.kind>>)

\* the endpoints, from what the store call returned or raised
app_get_all_stocks(r) == IF r.kind = "List" THEN Ret("200", r.val) ELSE Unhandled(r)

app_create_stock(r) ==
    IF IsValueError(r.kind) THEN Ret("400", <<str(r.kind)>>)
    ELSE IF r.kind = "Stock" THEN Ret("200", r.val)
    ELSE Unhandled(r)

app_get_stock(r) ==
    IF r.kind = "None" THEN Ret("404", <<"not found">>)
    ELSE IF r.kind = "Stock" THEN Ret("200", r.val)
    ELSE Unhandled(r)

app_get_stock_by_symbol(r) ==
    IF r.kind = "None" THEN Ret("404", <<"not found">>)
    ELSE IF r.kind = "Stock" THEN Ret("200", r.val)
    ELSE Unhandled(r)

\* mutant: the two failures of PUT /stocks/{stock_id} answered with each
\* other's status
app_update_stock_Swapped(r) ==
    IF IsValueError(r.kind) THEN Ret("404", <<str(r.kind)>>)
    ELSE IF r.kind = "None" THEN Ret("400", <<"not found">>)
    ELSE IF r.kind = "Stock" THEN Ret("200", r.val)
    ELSE Unhandled(r)

app_update_stock(r) ==
    IF IsValueError(r.kind) THEN Ret("400", <<str(r.kind)>>)
    ELSE IF r.kind = "None" THEN Ret("404", <<"not found">>)
    ELSE IF r.kind = "Stock" THEN Ret("200", r.val)
    ELSE Unhandled(r)

app_delete_stock(r) ==
    IF r.kind = "False" THEN Ret("404", <<"not found">>)
    ELSE IF r.kind = "True" THEN Ret("200", <<"deleted">>)
    ELSE Unhandled(r)

app_get_stats(r) == IF r.kind = "Stats" THEN Ret("200", <<r.val>>) ELSE Unhandled(r)

\* ---------------------------------- the MCP server of stock_mcp_server.py
\* base64.b64encode(f"{USERNAME}:{PASSWORD}".encode()).decode()
VALID_TOKEN == "YWRtaW46YWRtaW4="

\* A path is the sequence of its pieces, "/mcp" first when it starts with
\* it; a header value is the sequence of its pieces, "Bearer " first when it
\* starts with it, so that auth_header[7:] is its tail.
startswith(string, prefix) == string # <<>> /\ string[1] = prefix

\* mutant: the middleware checking the scheme of the header only
dispatch_SchemeOnly(path, auth_header) ==
    IF path \in {<<"/">>, <<"/health">>, <<"/auth-info">>} THEN Ret("call_next", <<>>)
    ELSE IF startswith(path, "/mcp")
    THEN IF auth_header = None \/ auth_header[1] = <<>>
            \/ ~startswith(auth_header[1], "Bearer ")
         THEN Ret("401", <<"Missing or invalid Authorization header">>)
         ELSE Ret("call_next", <<>>)
    ELSE Ret("call_next", <<>>)

\* AuthMiddleware.dispatch: call_next, or the 401 response
dispatch(path, auth_header) ==
    IF path \in {<<"/">>, <<"/health">>, <<"/auth-info">>} THEN Ret("call_next", <<>>)
    ELSE IF startswith(path, "/mcp")
    THEN IF auth_header = None \/ auth_header[1] = <<>>
            \/ ~startswith(auth_header[1], "Bearer ")
         THEN Ret("401", <<"Missing or invalid Authorization header">>)
         ELSE LET token == Tail(auth_header[1]) IN
              IF token # <<VALID_TOKEN>> THEN Ret("401", <<"Invalid token">>)
              ELSE Ret("call_next", <<>>)
    ELSE Ret("call_next", <<>>)

\* the routes outside /mcp: /health and /auth-info answer, no other is there
custom_route(path) ==
    IF path \in {<<"/health">>, <<"/auth-info">>} THEN Ret("200", <<path[1]>>)
    ELSE Ret("404", <<"Not Found">>)

\* the tools, from what the store call returned or raised; an exception no
\* tool catches leaves the tool
list_stocks_tool(r) ==
    IF r.kind = "List" THEN Ret("Dict", [count |-> Len(r.val), stocks |-> r.val]) ELSE r

get_stock_tool(r) ==
    IF r.kind = "None" THEN Ret("Dict", [error |-> "not found"])
    ELSE IF r.kind = "Stock" THEN Ret("Dict", [success |-> TRUE, stock |-> r.val[1]])
    ELSE r

create_stock_tool(r) ==
    IF IsValueError(r.kind) THEN Ret("Dict", [error |-> str(r.kind)])
    ELSE IF r.kind = "Stock" THEN Ret("Dict", [success |-> TRUE, stock |-> r.val[1]])
    ELSE r

update_stock_tool(r) ==
    IF IsValueError(r.kind) THEN Ret("Dict", [error |-> str(r.kind)])
    ELSE IF r.kind = "None" THEN Ret("Dict", [error |-> "not found"])
    ELSE IF r.kind = "Stock" THEN Ret("Dict", [success |-> TRUE, stock |-> r.val[1]])
    ELSE r

\* delete_stock_tool: stock is what get_stock returned, r what delete_stock did
delete_stock_tool(stock, r) ==
    IF stock.kind = "None" THEN Ret("Dict", [error |-> "not found"])
    ELSE IF stock.kind # "Stock" THEN stock
    ELSE IF r.kind = "True" THEN Ret("Dict", [success |-> TRUE, deleted_stock |-> stock.val[1]])
    ELSE IF r.kind = "False" THEN Ret("Dict", [error |-> "delete failed"])
    ELSE r

\* ------------------------------------------ requests to the two servers
\* the credentials HTTPBasic reads from a request: none, the configured
\* pair, a wrong password, a wrong username
Credentials ==
    {None,
     Some([username |-> "admin", password |-> "admin"]),
     Some([username |-> "admin", password |-> "x"]),
     Some([username |-> "x", password |-> "admin"])}

\* the Authorization header of a request to the MCP server: none, the valid
\* token, another token, another scheme, the token and more
Headers ==
    {None,
     Some(<<"Bearer ", VALID_TOKEN>>),
     Some(<<"Bearer ", "x">>),
     Some(<<"Basic ", VALID_TOKEN>>),
     Some(<<"Bearer ", VALID_TOKEN, "x">>)}

McpPaths == {<<"/mcp">>, <<"/mcp", "/">>}

OtherPaths == {<<"/">>, <<"/health">>, <<"/auth-info">>, <<"/docs">>}

SurfaceCreateInputs == {StockCreate(s, "x", 1, <<>>) : s \in {<<"a">>, <<"B">>}}

SurfacePatches == {StockUpdate(("symbol" :> Some(<<"B">>))), StockUpdate(("price" :> Some(3)))}

SurfaceToolPatches ==
    {StockUpdate(ToolGiven(Some(<<"B">>), None)), StockUpdate(ToolGiven(None, Some(3)))}

Request(op, id, symbol, path, auth, body) ==
    Call(op, id, symbol, <<[path |-> path, auth |-> auth, body |-> body, store |-> None]>>)

\* the request is answered without a store call
Answer(c, resp) ==
    /\ ret' = resp
    /\ call' = c
    /\ before' = file
    /\ UNCHANGED <<file, clock, nextId, writes, proc>>

\* the request is answered after instance p made the store call op, r being
\* what the call did; the request is marked with the call it led to
Served(c, resp, p, op, id, r) ==
    /\ file' = r.file
    /\ ret' = resp
    /\ call' = [c EXCEPT !.arg[1].store =
                    Some([instance |-> p, op |-> op, id |-> id, ret |-> r.ret])]
    /\ before' = file
    /\ writes' = IF r.wrote THEN writes + 1 ELSE writes
    /\ UNCHANGED <<clock, proc>>

Reading(res) == [file |-> file, ret |-> res, wrote |-> FALSE]

\* an endpoint with Depends(authenticate_user): the handler runs when the
\* dependency did not raise
Endpoint(c, credentials, handler) ==
    LET username == authenticate_user(credentials) IN
    IF username.kind = "401" THEN Answer(c, username) ELSE handler

\* GET /
AppRoot ==
    \E credentials \in Credentials :
        Answer(Request("root", NoSuchId, <<>>, <<"/">>, credentials, <<>>), Ret("200", <<"root">>))

\* GET /protected
AppProtected ==
    \E credentials \in Credentials :
        LET c == Request("protected_endpoint", NoSuchId, <<>>, <<"/protected">>, credentials, <<>>)
        IN Endpoint(c, credentials, Answer(c, Ret("200", <<"welcome">>)))

\* GET /stocks
AppGetAllStocks ==
    \E credentials \in Credentials :
        LET c == Request("app_get_all_stocks", NoSuchId, <<>>, <<"/stocks">>, credentials, <<>>)
            r == Reading(get_all_stocks(file))
        IN Endpoint(c, credentials,
                    /\ Served(c, app_get_all_stocks(r.ret), "db", "get_all_stocks", NoSuchId, r)
                    /\ UNCHANGED nextId)

\* POST /stocks
AppCreateStock ==
    \E credentials \in Credentials, stock \in SurfaceCreateInputs :
        /\ writes < MaxSurfaceCalls
        /\ nextId <= MaxIds
        /\ LET c == Request("app_create_stock", nextId, stock.symbol, <<"/stocks">>,
                            credentials, <<stock>>)
               r == create_stock(file, stock, nextId, clock)
           IN Endpoint(c, credentials,
                       /\ Served(c, app_create_stock(r.ret), "db", "create_stock", nextId, r)
                       /\ nextId' = IF r.ret.kind = "Stock" THEN nextId + 1 ELSE nextId)

\* GET /stocks/{stock_id}
AppGetStock ==
    \E credentials \in Credentials, stock_id \in Ids(nextId, file) :
        LET c == Request("app_get_stock", stock_id, <<>>, <<"/stocks/", "{stock_id}">>,
                         credentials, <<>>)
            r == Reading(get_stock(file, stock_id))
        IN Endpoint(c, credentials,
                    /\ Served(c, app_get_stock(r.ret), "db", "get_stock", stock_id, r)
                    /\ UNCHANGED nextId)

\* GET /stocks/symbol/{symbol}
AppGetStockBySymbol ==
    \E credentials \in Credentials, symbol \in {<<"a">>, <<"B">>} :
        LET c == Request("app_get_stock_by_symbol", NoSuchId, symbol,
                         <<"/stocks/symbol/", "{symbol}">>, credentials, <<>>)
            r == Reading(get_stock_by_symbol(file, symbol))
        IN Endpoint(c, credentials,
                    /\ Served(c, app_get_stock_by_symbol(r.ret), "db", "get_stock_by_symbol",
                              NoSuchId, r)
                    /\ UNCHANGED nextId)

\* PUT /stocks/{stock_id}
AppUpdateStock ==
    \E credentials \in Credentials, stock_id \in Ids(nextId, file),
       stock_update \in SurfacePatches :
        /\ writes < MaxSurfaceCalls
        /\ LET c == Request("app_update_stock", stock_id, <<>>, <<"/stocks/", "{stock_id}">>,
                            credentials, <<stock_update>>)
               r == update_stock(file, stock_id, stock_update, clock)
           IN Endpoint(c, credentials,
                       /\ Served(c, app_update_stock(r.ret), "db", "update_stock", stock_id, r)
                       /\ UNCHANGED nextId)

\* DELETE /stocks/{stock_id}
AppDeleteStock ==
    \E credentials \in Credentials, stock_id \in Ids(nextId, file) :
        /\ writes < MaxSurfaceCalls
        /\ LET c == Request("app_delete_stock", stock_id, <<>>, <<"/stocks/", "{stock_id}">>,
                            credentials, <<>>)
               r == delete_stock(file, stock_id)
           IN Endpoint(c, credentials,
                       /\ Served(c, app_delete_stock(r.ret), "db", "delete_stock", stock_id, r)
                       /\ UNCHANGED nextId)

\* GET /stats
AppGetStats ==
    \E credentials \in Credentials :
        LET c == Request("app_get_stats", NoSuchId, <<>>, <<"/stats">>, credentials, <<>>)
            r == Reading(get_all_stocks(file))
        IN Endpoint(c, credentials,
                    /\ Served(c, app_get_stats(get_stats(file)), "db", "get_all_stocks",
                              NoSuchId, r)
                    /\ UNCHANGED nextId)

\* a request to the MCP server passes AuthMiddleware before its handler runs
Forwarded(c, path, auth_header, handler) ==
    LET response == dispatch(path, auth_header) IN
    IF response.kind = "401" THEN Answer(c, response) ELSE handler

\* GET /, /health, /auth-info, or a path that has no route
McpCustomRoute ==
    \E path \in OtherPaths, auth_header \in Headers :
        LET c == Request("custom_route", NoSuchId, <<>>, path, auth_header, <<>>)
        IN Forwarded(c, path, auth_header, Answer(c, custom_route(path)))

McpListStocks ==
    \E path \in McpPaths, auth_header \in Headers :
        LET c == Request("list_stocks_tool", NoSuchId, <<>>, path, auth_header, <<>>)
            r == Reading(get_all_stocks(file))
        IN Forwarded(c, path, auth_header,
                     /\ Served(c, list_stocks_tool(r.ret), "stock_db", "get_all_stocks",
                               NoSuchId, r)
                     /\ UNCHANGED nextId)

\* the resource stock://stats
McpGetStatsResource ==
    \E path \in McpPaths, auth_header \in Headers :
        LET c == Request("get_stats_resource", NoSuchId, <<>>, path, auth_header, <<>>)
            r == Reading(get_all_stocks(file))
        IN Forwarded(c, path, auth_header,
                     /\ Served(c, get_stats_resource(file), "stock_db", "get_all_stocks",
                               NoSuchId, r)
                     /\ UNCHANGED nextId)

McpGetStockStats ==
    \E path \in McpPaths, auth_header \in Headers :
        LET c == Request("get_stock_stats_tool", NoSuchId, <<>>, path, auth_header, <<>>)
            r == Reading(get_all_stocks(file))
        IN Forwarded(c, path, auth_header,
                     /\ Served(c, get_stock_stats_tool(file), "stock_db", "get_all_stocks",
                               NoSuchId, r)
                     /\ UNCHANGED nextId)

\* get_stock with by_symbol = False
McpGetStock ==
    \E path \in McpPaths, auth_header \in Headers, identifier \in Ids(nextId, file) :
        LET c == Request("get_stock_tool", identifier, <<>>, path, auth_header, <<>>)
            r == Reading(get_stock(file, identifier))
        IN Forwarded(c, path, auth_header,
                     /\ Served(c, get_stock_tool(r.ret), "stock_db", "get_stock", identifier, r)
                     /\ UNCHANGED nextId)

\* get_stock with by_symbol = True
McpGetStockBySymbol ==
    \E path \in McpPaths, auth_header \in Headers, identifier \in {<<"a">>, <<"B">>} :
        LET c == Request("get_stock_tool", NoSuchId, identifier, path, auth_header, <<>>)
            r == Reading(get_stock_by_symbol(file, identifier))
        IN Forwarded(c, path, auth_header,
                     /\ Served(c, get_stock_tool(r.ret), "stock_db", "get_stock_by_symbol",
                               NoSuchId, r)
                     /\ UNCHANGED nextId)

McpCreateStock ==
    \E path \in McpPaths, auth_header \in Headers, stock_data \in SurfaceCreateInputs :
        /\ writes < MaxSurfaceCalls
        /\ nextId <= MaxIds
        /\ LET c == Request("create_stock_tool", nextId, stock_data.symbol, path, auth_header,
                            <<stock_data>>)
               r == create_stock(file, stock_data, nextId, clock)
           IN Forwarded(c, path, auth_header,
                        /\ Served(c, create_stock_tool(r.ret), "stock_db", "create_stock",
                                  nextId, r)
                        /\ nextId' = IF r.ret.kind = "Stock" THEN nextId + 1 ELSE nextId)

McpUpdateStock ==
    \E path \in McpPaths, auth_header \in Headers, stock_id \in Ids(nextId, file),
       update_data \in SurfaceToolPatches :
        /\ writes < MaxSurfaceCalls
        /\ LET c == Request("update_stock_tool", stock_id, <<>>, path, auth_header,
                            <<update_data>>)
               r == update_stock(file, stock_id, update_data, clock)
           IN Forwarded(c, path, auth_header,
                        /\ Served(c, update_stock_tool(r.ret), "stock_db", "update_stock",
                                  stock_id, r)
                        /\ UNCHANGED nextId)

McpDeleteStock ==
    \E path \in McpPaths, auth_header \in Headers, stock_id \in Ids(nextId, file) :
        /\ writes < MaxSurfaceCalls
        /\ LET c == Request("delete_stock_tool", stock_id, <<>>, path, auth_header, <<>>)
               stock == get_stock(file, stock_id)
               r == IF stock.kind = "Stock" THEN delete_stock(file, stock_id)
                    ELSE Reading(stock)
           IN Forwarded(c, path, auth_header,
                        /\ Served(c, delete_stock_tool(stock, r.ret), "stock_db",
                                  IF stock.kind = "Stock" THEN "delete_stock" ELSE "get_stock",
                                  stock_id, r)
                        /\ UNCHANGED nextId)

\* requests to the two servers over the one stocks.txt, one at a time
NextSurface ==
    \/ AppRoot
    \/ AppProtected
    \/ AppGetAllStocks
    \/ AppCreateStock
    \/ AppGetStock
    \/ AppGetStockBySymbol
    \/ AppUpdateStock
    \/ AppDeleteStock
    \/ AppGetStats
    \/ McpCustomRoute
    \/ McpListStocks
    \/ McpGetStatsResource
    \/ McpGetStockStats
    \/ McpGetStock
    \/ McpGetStockBySymbol
    \/ McpCreateStock
    \/ McpUpdateStock
    \/ McpDeleteStock

SpecSurface == Init /\ [][NextSurface]_vars

\* ----------------------------------- two instances, calls in their steps
\* Neither StockDatabase nor its callers take a lock: a call of one instance
\* is its load (and what it computes from it), the open(file_path, 'w') of
\* _save_data, which truncates the file, the writes of json.dump, which reach
\* the file in pieces, and the close.

Nul == [t |-> "nul"]

\* write(2) at an offset: what lies beyond the end of the file is filled
WriteAt(content, pos, chunk) ==
    LET n == IF Len(content) > pos + Len(chunk) THEN Len(content) ELSE pos + Len(chunk) IN
    [i \in 1..n |->
        IF i > pos /\ i <= pos + Len(chunk) THEN chunk[i - pos]
        ELSE IF i <= Len(content) THEN content[i]
        ELSE Nul]

ConcCreateInputs == {StockCreate(s, "x", 1, <<>>) : s \in {<<"a">>, <<"B">>}}

ConcPatches == {StockUpdate(("price" :> Some(3)))}

\* the call is made: the load and the body; a body that does not save returns
Begin(p, op, id, b) ==
    /\ proc' = [proc EXCEPT ![p] =
                  [pc |-> IF b.write THEN "open" ELSE "idle", op |-> op, id |-> id,
                   buf |-> IF b.write THEN dumps(b.data) ELSE <<>>, pos |-> 0,
                   ret |-> b.ret]]
    /\ writes' = writes + 1
    /\ UNCHANGED <<file, clock, call, ret, before>>

ConcCreate(p) ==
    \E stock_data \in ConcCreateInputs :
        /\ proc[p].pc = "idle"
        /\ writes < MaxConcCalls
        /\ nextId <= MaxIds
        /\ Begin(p, "create_stock", nextId, create_body(load_data(file), stock_data, nextId, clock))
        /\ nextId' = nextId + 1

ConcUpdate(p) ==
    \E stock_id \in Ids(nextId, file), update_data \in ConcPatches :
        /\ proc[p].pc = "idle"
        /\ writes < MaxConcCalls
        /\ Begin(p, "update_stock", stock_id, update_body(load_data(file), stock_id, update_data, clock))
        /\ UNCHANGED nextId

ConcDelete(p) ==
    \E stock_id \in Ids(nextId, file) :
        /\ proc[p].pc = "idle"
        /\ writes < MaxConcCalls
        /\ Begin(p, "delete_stock", stock_id, delete_body(load_data(file), stock_id))
        /\ UNCHANGED nextId

\* open(self.file_path, 'w'): the file is there and empty
ConcOpen(p) ==
    /\ proc[p].pc = "open"
    /\ file' = [exists |-> TRUE, content |-> <<>>]
    /\ proc' = [proc EXCEPT ![p].pc = "write"]
    /\ UNCHANGED <<clock, nextId, writes, call, ret, before>>

\* some more of what json.dump wrote reaches the file
ConcWrite(p) ==
    /\ proc[p].pc = "write"
    /\ \E k \in 1..(Len(proc[p].buf) - proc[p].pos) :
        /\ file' = [exists |-> TRUE,
                    content |-> WriteAt(file.content, proc[p].pos,
                                        SubSeq(proc[p].buf, proc[p].pos + 1, proc[p].pos + k))]
        /\ proc' = [proc EXCEPT ![p].pos = proc[p].pos + k]
    /\ UNCHANGED <<clock, nextId, writes, call, ret, before>>

\* the with block ends with all written: the call returns
ConcClose(p) ==
    /\ proc[p].pc = "write"
    /\ proc[p].pos = Len(proc[p].buf)
    /\ proc' = [proc EXCEPT ![p].pc = "idle"]
    /\ UNCHANGED <<file, clock, nextId, writes, call, ret, before>>

\* a write fails (no space left, the process is killed): the call ends there
ConcWriteFails(p) ==
    /\ proc[p].pc = "write"
    /\ proc[p].pos < Len(proc[p].buf)
    /\ proc' = [proc EXCEPT ![p].pc = "idle", ![p].ret = Ret("OSError", <<>>)]
    /\ UNCHANGED <<file, clock, nextId, writes, call, ret, before>>

\* a read by an instance that is between calls
ConcGetAll(p) ==
    /\ proc[p].pc = "idle"
    /\ proc' = [proc EXCEPT ![p] =
                  [pc |-> "idle", op |-> "get_all_stocks", id |-> NoSuchId,
                   buf |-> <<>>, pos |-> 0, ret |-> get_all_stocks(file)]]
    /\ before' = file
    /\ UNCHANGED <<file, clock, nextId, writes, call, ret>>

NextConc ==
    \E p \in Instances :
        \/ ConcCreate(p)
        \/ ConcUpdate(p)
        \/ ConcDelete(p)
        \/ ConcOpen(p)
        \/ ConcWrite(p)
        \/ ConcClose(p)
        \/ ConcWriteFails(p)
        \/ ConcGetAll(p)

SpecConc == Init /\ [][NextConc]_vars

\* ------------------------------------------------ the start of stock_api.py
\* StockDatabase._ensure_file_exists
ensure_file_exists(f) == IF ~f.exists THEN save_data(f, <<>>) ELSE f

\* sample_stocks of init_sample_data; price and change in hundredths, the
\* market cap in units of 10^9
sample_stocks ==
    <<StockCreate(<<"A", "A", "P", "L">>, "Apple Inc.", 17543,
                  [change |-> 214, volume |-> 52000000, market_cap |-> 2800]),
      StockCreate(<<"G", "O", "O", "G", "L">>, "Alphabet Inc.", 13821,
                  [change |-> 0 - 123, volume |-> 28000000, market_cap |-> 1700]),
      StockCreate(<<"M", "S", "F", "T">>, "Microsoft Corp.", 37885,
                  [change |-> 567, volume |-> 31000000, market_cap |-> 2900]),
      StockCreate(<<"T", "S", "L", "A">>, "Tesla Inc.", 24842,
                  [change |-> 0 - 891, volume |-> 89000000, market_cap |-> 790]),
      StockCreate(<<"N", "V", "D", "A">>, "NVIDIA Corp.", 87528,
                  [change |-> 1573, volume |-> 45000000, market_cap |-> 2100])>>

\* for stock_data in sample_stocks: create_stock, a ValueError passed over;
\* any other exception ends the loop and is printed.  created counts the
\* records created, each with the next uuid4.
RECURSIVE create_samples(_, _, _, _, _)
create_samples(f, samples, stock_id, now, created) ==
    IF samples = <<>> THEN [file |-> f, ret |-> Ret("None", <<>>), created |-> created]
    ELSE LET r == create_stock(f, samples[1], stock_id, now) IN
         IF r.ret.kind = "Stock"
         THEN create_samples(r.file, Tail(samples), stock_id + 1, now, created + 1)
         ELSE IF IsValueError(r.ret.kind)
         THEN create_samples(r.file, Tail(samples), stock_id, now, created)
         ELSE [file |-> r.file, ret |-> Ret("printed", <<r.ret.kind>>), created |-> created]

\* mutant: the samples created whether or not the store holds records
init_sample_data_Always(f, stock_id, now) ==
    create_samples(f, sample_stocks, stock_id, now, 0)

\* init_sample_data: the samples are created when get_all_stocks returns an
\* empty list; an exception of get_all_stocks is printed
init_sample_data(f, stock_id, now) ==
    LET stocks == get_all_stocks(f) IN
    IF stocks.kind # "List"
    THEN [file |-> f, ret |-> Ret("printed", <<stocks.kind>>), created |-> 0]
    ELSE IF stocks.val = <<>>
    THEN create_samples(f, sample_stocks, stock_id, now, 0)
    ELSE [file |-> f, ret |-> Ret("None", <<>>), created |-> 0]

\* the clients' calls between starts: a record of their own, a price set to
\* None, a delete
SeedCreateInputs == {StockCreate(<<"B">>, "x", 1, <<>>)}

SeedPatches == {StockUpdate(("price" :> None))}

\* the module is loaded (a server starts): db = StockDatabase(), then
\* init_sample_data()
Start ==
    /\ writes <= MaxSeedWrites
    /\ LET f == ensure_file_exists(file)
           r == init_sample_data(f, nextId, clock)
       IN /\ file' = r.file
          /\ ret' = r.ret
          /\ call' = Call("init_sample_data", nextId, <<>>, <<>>)
          /\ before' = file
          /\ writes' = writes + r.created
          /\ nextId' = nextId + r.created
    /\ UNCHANGED <<clock, proc>>

SeedCreate ==
    \E stock_data \in SeedCreateInputs :
        /\ writes < MaxSeedWrites
        /\ nextId <= MaxIds
        /\ LET r == create_stock(file, stock_data, nextId, clock) IN
           /\ Finish(r, Call("create_stock", nextId, stock_data.symbol, <<stock_data>>))
           /\ nextId' = IF r.ret.kind = "Stock" THEN nextId + 1 ELSE nextId

SeedUpdate ==
    \E stock_id \in Ids(nextId, file), update_data \in SeedPatches :
        /\ writes < MaxSeedWrites
        /\ Finish(update_stock(file, stock_id, update_data, clock),
                  Call("update_stock", stock_id, <<>>, <<update_data>>))
        /\ UNCHANGED nextId

SeedDelete ==
    \E stock_id \in Ids(nextId, file) :
        /\ writes < MaxSeedWrites
        /\ Finish(delete_stock(file, stock_id), Call("delete_stock", stock_id, <<>>, <<>>))
        /\ UNCHANGED nextId

\* starts of the server between the clients' calls
NextSeed ==
    \/ Start
    \/ SeedCreate
    \/ SeedUpdate
    \/ SeedDelete

SpecSeed == Init /\ [][NextSeed]_vars

\* ================================================================ claims
\* the persisted collection, as the next load finds it
Data(f) == load_data(f).items

\* a stored symbol in upper case (None stays None)
Normal(x) == IF x = None THEN None ELSE Some(Upper(x[1]))

Patch == call.arg[1]

OtherItemsSame(old, new, key) ==
    /\ Len(new) = Len(old)
    /\ \A i \in DOMAIN old :
        /\ new[i].key = old[i].key
        /\ old[i].key # key => new[i] = old[i]

\* C1: no two distinct records of the persisted collection have symbols that
\* are equal when compared case-insensitively.
C1_UniqueSymbols ==
    \A i, j \in DOMAIN Data(file) :
        i # j => Normal(Data(file)[i].val.symbol) # Normal(Data(file)[j].val.symbol)

\* C2: create_stock with a symbol equal, ignoring case, to the symbol of a
\* record already in the store raises ValueError and leaves the file as it was.
C2_DuplicateCreateRejected ==
    (/\ call.op = "create_stock"
     /\ \E i \in DOMAIN Data(before) :
            Normal(Data(before)[i].val.symbol) = Some(Upper(call.symbol)))
    => (ret.kind = "ValueError" /\ file = before)

\* the last call was an update_stock of an existing id that was applied: it
\* got past the duplicate check, as it always does when the patch carries no
\* symbol to check
C4_Applied ==
    /\ call.op = "update_stock"
    /\ call.id \in Keys(Data(before))
    /\ (ret.kind \in {"Stock", "ValidationError"} \/ ~Truthy(Patch.v.symbol))

\* C4: an update_stock of an existing id that is applied (always, when only
\* price is set) leaves the fields absent from the patch as they were, stores
\* the value of each field present (an explicit 0, "" or None too; a symbol
\* in upper case), sets updated_at to the time of the call, keeps id and
\* created_at, and leaves every other record as it was.
C4_PartialUpdate ==
    C4_Applied =>
        /\ call.id \in Keys(Data(file))
        /\ OtherItemsSame(Data(before), Data(file), call.id)
        /\ LET old == Lookup(Data(before), call.id)
               new == Lookup(Data(file), call.id)
           IN /\ \A f \in UpdateFields \ Patch.set : new[f] = old[f]
              /\ \A f \in Patch.set :
                    new[f] = IF f = "symbol" /\ Truthy(Patch.v[f])
                             THEN Some(Upper(Patch.v[f][1]))
                             ELSE Patch.v[f]
              /\ new.id = old.id
              /\ new.created_at = old.created_at
              /\ new.updated_at = call.now

\* C4 witness: a patch with only price set was applied to one of two records
C4_Witness ==
    /\ C4_Applied
    /\ Patch.set = {"price"}
    /\ Patch.v.price = Some(3)
    /\ Len(Data(file)) = 2
    /\ Lookup(Data(before), call.id).price # Some(3)
    /\ Lookup(Data(file), call.id).price = Some(3)
    /\ call.now > Lookup(Data(before), call.id).updated_at

\* C5: update_stock of an existing id whose patch has a symbol (the empty
\* string included) that equals, ignoring case, the symbol of another record
\* raises ValueError and leaves the file as it was.
C5_DuplicateUpdateRejected ==
    (/\ call.op = "update_stock"
     /\ call.id \in Keys(Data(before))
     /\ "symbol" \in Patch.set
     /\ Patch.v.symbol # None
     /\ \E i \in DOMAIN Data(before) :
            /\ Data(before)[i].key # call.id
            /\ Normal(Data(before)[i].val.symbol) = Normal(Patch.v.symbol))
    => (ret.kind = "ValueError" /\ file = before)

\* C6: delete_stock of an id not in the store returns False and leaves the
\* file as it was; of an id in the store it returns True and removes exactly
\* that record, after which get_stock of the id returns None and
\* get_all_stocks returns the other records, one fewer than before.
C6_Delete ==
    call.op = "delete_stock" =>
        IF call.id \notin Keys(Data(before))
        THEN ret.kind = "False" /\ file = before
        ELSE /\ ret.kind = "True"
             /\ Data(file) = DelItem(Data(before), call.id)
             /\ get_stock(file, call.id) = Ret("None", <<>>)
             /\ get_all_stocks(file) = Ret("List", Values(DelItem(Data(before), call.id)))
             /\ Len(Data(file)) = Len(Data(before)) - 1
             /\ delete_stock(file, call.id).ret.kind = "False"

\* C7: after a successful create_stock with symbol s, get_stock of the
\* returned id and get_stock_by_symbol of every t equal to s ignoring case
\* return the created record, with the upper-case symbol and the name and
\* price supplied.
C7_CreateRoundTrip ==
    (call.op = "create_stock" /\ ret.kind = "Stock") =>
        LET stock == ret.val[1] IN
        /\ stock.symbol = Some(Upper(call.symbol))
        /\ stock.name = Some(call.arg[1].name)
        /\ stock.price = Some(call.arg[1].price)
        /\ get_stock(file, stock.id) = Ret("Stock", <<stock>>)
        /\ \A t \in Symbols :
              Upper(t) = Upper(call.symbol)
                  => get_stock_by_symbol(file, t) = Ret("Stock", <<stock>>)

\* C8: get_stock and update_stock of an id that is not in the store return
\* None, whatever the patch, and leave the file as it was.
C8_UnknownId ==
    /\ \A stock_id \in (1..MaxIds) \cup {NoSuchId} :
          stock_id \notin Keys(Data(file)) => get_stock(file, stock_id) = Ret("None", <<>>)
    /\ (call.op = "update_stock" /\ call.id \notin Keys(Data(before)))
          => (ret = Ret("None", <<>>) /\ file = before)

\* instance p has returned from a successful create_stock
Created(p) ==
    /\ proc[p].pc = "idle"
    /\ proc[p].op = "create_stock"
    /\ proc[p].ret.kind = "Stock"

\* C3: when both instances have returned from a successful create_stock, the
\* file holds the records of both (no lost update).
C3_NoLostUpdate ==
    (\A p \in Instances : Created(p)) =>
        \A p \in Instances : proc[p].id \in Keys(Data(file))

\* C9: the file is at all times empty or the complete encoding of a
\* collection.
C9_FileNeverPartial ==
    file.content = <<>> \/ IsObjectText(file.content)

NotAnObject(f) == ~f.exists \/ ~IsObjectText(strip(f.content))

\* C10: when the file is absent, empty, or holds anything but a JSON object,
\* get_all_stocks returns an empty list, get_stock and get_stock_by_symbol
\* return None and delete_stock returns False.
C10_BadFileIsEmptyStore ==
    NotAnObject(before) =>
        /\ call.op = "get_all_stocks" => ret = Ret("List", <<>>)
        /\ call.op = "get_stock" => ret = Ret("None", <<>>)
        /\ call.op = "get_stock_by_symbol" => ret = Ret("None", <<>>)
        /\ call.op = "delete_stock" => ret = Ret("False", <<>>)

\* C8 witness: update_stock of an unknown id with a patch whose symbol is held
\* by a record of the store
C8_Witness ==
    /\ call.op = "update_stock"
    /\ call.id \notin Keys(Data(before))
    /\ Truthy(Patch.v.symbol)
    /\ \E i \in DOMAIN Data(before) :
          Normal(Data(before)[i].val.symbol) = Normal(Patch.v.symbol)
    /\ ret.kind = "None"

\* the ids of the records created so far: uuid4 gives a value never given
\* before, and a create_stock that returns a Stock consumes one
EverCreated == 1..(nextId - 1)

\* C11: a successful create_stock returns and stores a record under the id
\* just generated, which is the id of no record created before, deleted or
\* not; every key of the persisted collection is the id field of its record
\* and an id that was generated; update_stock keeps the keys and their order.
C11_IdsNeverReused ==
    /\ \A i \in DOMAIN Data(file) :
          /\ Data(file)[i].val.id = Data(file)[i].key
          /\ Data(file)[i].key \in EverCreated
          /\ \A j \in DOMAIN Data(file) : Data(file)[j].key = Data(file)[i].key => j = i
    /\ (call.op = "create_stock" /\ ret.kind = "Stock") =>
          /\ ret.val[1].id = nextId - 1
          /\ ret.val[1].id \notin Keys(Data(before))
          /\ Data(file) = Append(Data(before), [key |-> nextId - 1, val |-> ret.val[1]])
    /\ (call.op = "update_stock" /\ call.id \in Keys(Data(before))) =>
          [i \in DOMAIN Data(file) |-> Data(file)[i].val.id]
              = [i \in DOMAIN Data(before) |-> Data(before)[i].key]

\* C11 witness: a create_stock succeeded after an earlier record was deleted
C11_Witness ==
    /\ call.op = "create_stock"
    /\ ret.kind = "Stock"
    /\ \E id \in EverCreated : id \notin Keys(Data(file)) /\ id < ret.val[1].id
    /\ Keys(Data(file)) = {ret.val[1].id}

\* C12: every record has updated_at >= created_at; a successful create_stock
\* sets both to the time of the call; a successful update_stock keeps
\* created_at and sets updated_at to a value strictly greater than the one
\* the record had.
C12_Timestamps ==
    /\ \A i \in DOMAIN Data(file) :
          Data(file)[i].val.updated_at >= Data(file)[i].val.created_at
    /\ (call.op = "create_stock" /\ ret.kind = "Stock") =>
          /\ ret.val[1].created_at = call.now
          /\ ret.val[1].updated_at = call.now
    /\ (call.op = "update_stock" /\ ret.kind = "Stock") =>
          /\ ret.val[1].created_at = Lookup(Data(before), call.id).created_at
          /\ ret.val[1].updated_at > Lookup(Data(before), call.id).updated_at

\* the calls that return the stats, and the stats in what the last call returned
StatsOps == {"get_stats", "get_stats_resource", "get_stock_stats_tool"}

\* json.loads of the text of a dict: the dict
json_loads(text) ==
    LET items == loads(text).items IN [k \in Keys(items) |-> Lookup(items, k)]

\* the stats in what a stats entry point returned
StatsOf(op, r) ==
    IF op = "get_stock_stats_tool" THEN r.val.stats
    ELSE IF op = "get_stats_resource" THEN json_loads(r.val)
    ELSE r.val

TheStats == StatsOf(call.op, ret)

Total(xs) == LET RECURSIVE upto(_)
                 upto(n) == IF n = 0 THEN 0 ELSE upto(n - 1) + xs[n]
             IN upto(Len(xs))

Abs(x) == IF x < 0 THEN 0 - x ELSE x

\* C13: on a store whose records get_all_stocks returns, at least one, each
\* stats entry point returns the number of records, the hundredth nearest to
\* the mean of the prices, the sum of the market caps, the symbol of the first
\* record in listing order with the highest price and the symbol of the first
\* record in listing order with the lowest price.
C13_StatsNonEmpty ==
    (/\ call.op \in StatsOps
     /\ get_all_stocks(before).kind = "List"
     /\ get_all_stocks(before).val # <<>>) =>
        LET stocks == get_all_stocks(before).val
            n == Len(stocks)
            p == [i \in 1..n |-> stocks[i].price[1]]
        IN /\ ret.kind \in {"Stats", "Text", "Dict"}
           /\ TheStats.total_count = n
           /\ 2 * Abs(100 * Total(p) - TheStats.avg_price * n) <= n
           /\ TheStats.total_market_cap = Total([i \in 1..n |-> stocks[i].market_cap[1]])
           /\ \E i \in 1..n :
                 /\ TheStats.max_price = stocks[i].symbol[1]
                 /\ \A j \in 1..n : p[j] <= p[i]
                 /\ \A j \in 1..(i - 1) : p[j] < p[i]
           /\ \E i \in 1..n :
                 /\ TheStats.min_price = stocks[i].symbol[1]
                 /\ \A j \in 1..n : p[j] >= p[i]
                 /\ \A j \in 1..(i - 1) : p[j] > p[i]

\* C13 witness: the stats of three records with prices 1, 2, 2: the mean is
\* rounded up to 1.67 and two records have the highest price
C13_Witness ==
    /\ call.op = "get_stock_stats_tool"
    /\ get_all_stocks(before).kind = "List"
    /\ Len(get_all_stocks(before).val) = 3
    /\ [i \in 1..3 |-> get_all_stocks(before).val[i].price[1]] = <<1, 2, 2>>
    /\ ret.kind = "Dict"
    /\ ret.val.stats.avg_price = 167
    /\ ret.val.stats.max_price = <<"B">>
    /\ ret.val.stats.min_price = <<"A">>

\* C14: on a store with no records each stats entry point returns count 0,
\* average price 0, total market cap 0 and no max-price or min-price field,
\* also after every record was deleted.
C14_StatsEmpty ==
    (call.op \in StatsOps /\ before.exists /\ Data(before) = <<>>) =>
        /\ ret.kind \in {"Stats", "Text", "Dict"}
        /\ DOMAIN TheStats = {"total_count", "avg_price", "total_market_cap"}
        /\ TheStats.total_count = 0
        /\ TheStats.avg_price = 0
        /\ TheStats.total_market_cap = 0

\* C14 witness: the stats of a store whose three records were all deleted
C14_Witness ==
    /\ call.op = "get_stats"
    /\ writes = 3
    /\ Data(before) = <<>>
    /\ ret.kind = "Stats"
    /\ ret.val.total_count = 0

\* the request the last call was, and the store call it led to (None: none)
TheRequest == call.arg[1]

AppOps ==
    {"protected_endpoint", "app_get_all_stocks", "app_create_stock", "app_get_stock",
     "app_get_stock_by_symbol", "app_update_stock", "app_delete_stock", "app_get_stats"}

McpOps ==
    {"list_stocks_tool", "get_stats_resource", "get_stock_stats_tool", "get_stock_tool",
     "create_stock_tool", "update_stock_tool", "delete_stock_tool"}

\* C15: a request to /protected, /stocks, /stocks/{id}, /stocks/symbol/{symbol}
\* or /stats without credentials, or with a username or password other than
\* admin/admin, is answered 401, leads to no store call and leaves the file as
\* it was; with the pair admin/admin it is not answered 401 and, /protected
\* apart, reaches its store call.
C15_HttpAuthGate ==
    call.op \in AppOps =>
        IF TheRequest.auth = Some([username |-> "admin", password |-> "admin"])
        THEN /\ ret.kind # "401"
             /\ call.op # "protected_endpoint" => TheRequest.store # None
        ELSE /\ ret.kind = "401"
             /\ TheRequest.store = None
             /\ file = before

\* C15 witness: DELETE of a record of the store with a wrong password is
\* answered 401 and the record is still there
C15_Witness ==
    /\ call.op = "app_delete_stock"
    /\ TheRequest.auth = Some([username |-> "admin", password |-> "x"])
    /\ call.id \in Keys(Data(file))
    /\ ret.kind = "401"

\* C16: a request to a path that starts with /mcp is answered 401, leads to
\* no store call and leaves the file as it was, unless its Authorization
\* header is "Bearer " followed by exactly the valid token, and then it is
\* forwarded to its handler; requests to /, /health and /auth-info are
\* forwarded whatever header they carry.
C16_McpBearerGate ==
    /\ call.op \in McpOps =>
          IF TheRequest.auth = Some(<<"Bearer ", "YWRtaW46YWRtaW4=">>)
          THEN ret.kind # "401" /\ TheRequest.store # None
          ELSE /\ ret.kind = "401"
               /\ TheRequest.store = None
               /\ file = before
    /\ (call.op = "custom_route"
            /\ TheRequest.path \in {<<"/">>, <<"/health">>, <<"/auth-info">>}) =>
          /\ ret.kind # "401"
          /\ TheRequest.path # <<"/">> => ret.kind = "200"

\* C16 witness: the delete_stock tool called on a record of the store with a
\* token that only starts with the valid one is answered 401
C16_Witness ==
    /\ call.op = "delete_stock_tool"
    /\ TheRequest.auth = Some(<<"Bearer ", "YWRtaW46YWRtaW4=", "x">>)
    /\ call.id \in Keys(Data(file))
    /\ ret.kind = "401"

\* what the store call of the last request returned or raised
StoreRet == TheRequest.store[1].ret

\* C17: when the store call of a request raised the duplicate-symbol
\* ValueError, the HTTP API answers 400 and the tools return an error result
\* saying that the symbol already exists; when it returned None (False for
\* delete_stock), the HTTP API answers 404 and the tools return an error
\* result saying not found; a tool error result has no success field.
C17_SurfaceSignals ==
    (call.op \in AppOps \cup McpOps /\ TheRequest.store # None) =>
        /\ (call.op \in {"app_create_stock", "app_update_stock"} /\ StoreRet.kind = "ValueError")
              => ret = Ret("400", <<"already exists">>)
        /\ (call.op \in {"app_get_stock", "app_get_stock_by_symbol", "app_update_stock",
                          "app_delete_stock"}
                /\ StoreRet.kind \in {"None", "False"})
              => ret.kind = "404"
        /\ (call.op \in {"create_stock_tool", "update_stock_tool"}
                /\ StoreRet.kind = "ValueError")
              => ret = Ret("Dict", [error |-> "already exists"])
        /\ (call.op \in {"get_stock_tool", "update_stock_tool", "delete_stock_tool"}
                /\ StoreRet.kind \in {"None", "False"})
              => ret = Ret("Dict", [error |-> "not found"])
        /\ (call.op \in McpOps /\ ret.kind = "Dict" /\ "error" \in DOMAIN ret.val)
              => "success" \notin DOMAIN ret.val

\* C17 witness: PUT /stocks/{stock_id} with the symbol of another record is
\* answered 400
C17_Witness ==
    /\ call.op = "app_update_stock"
    /\ TheRequest.store # None
    /\ StoreRet.kind = "ValueError"
    /\ Len(Data(file)) = 2
    /\ ret.kind = "400"

\* C18: the update_stock tool called for a record of a store of valid records
\* with some parameters left at None, and not rejected as a duplicate, stores
\* the supplied values (the symbol in upper case) and keeps every other field
\* of the record and every other record; the tool reports success, and
\* get_all_stocks and get_stock_by_symbol still return the record.
C18_ToolPartialUpdate ==
    (/\ call.op = "update_stock_tool"
     /\ TheRequest.store # None
     /\ call.id \in Keys(Data(before))
     /\ get_all_stocks(before).kind = "List"
     /\ StoreRet.kind # "ValueError") =>
        LET old == Lookup(Data(before), call.id)
            new == Lookup(Data(file), call.id)
            given == TheRequest.body[1].v
        IN /\ OtherItemsSame(Data(before), Data(file), call.id)
           /\ \A f \in UpdateFields :
                 new[f] = IF given[f] = None THEN old[f]
                          ELSE IF f = "symbol" THEN Some(Upper(given[f][1]))
                          ELSE given[f]
           /\ ret.kind = "Dict"
           /\ "success" \in DOMAIN ret.val
           /\ get_all_stocks(file).kind = "List"
           /\ get_stock_by_symbol(file, new.symbol[1]) = Ret("Stock", <<new>>)

\* both instances have returned from a successful create_stock of symbol
Both(symbol) ==
    \A p \in Instances : Created(p) /\ proc[p].ret.val[1].symbol = Some(symbol)

\* C19: of two create_stock calls of the two instances with the same symbol
\* B, given in its stored form, at most one succeeds, however their loads and
\* saves interleave.
C19_ConcurrentCreate == ~Both(<<"B">>)

\* C20: a successful create_stock appends the returned record, under its id,
\* to the persisted collection and changes nothing else; the record has the
\* symbol in upper case, the name and price given, and change, volume and
\* market_cap 0 when the input left them out.
C20_CreateFrame ==
    (call.op = "create_stock" /\ ret.kind = "Stock") =>
        LET stock == ret.val[1]
            stock_data == call.arg[1]
        IN /\ Data(file) = Append(Data(before), [key |-> stock.id, val |-> stock])
           /\ stock.id \notin Keys(Data(before))
           /\ stock.symbol = Some(Upper(call.symbol))
           /\ stock.name = Some(stock_data.name)
           /\ stock.price = Some(stock_data.price)
           /\ stock_data = StockCreate(call.symbol, stock_data.name, stock_data.price, <<>>)
                 => /\ stock.change = Some(0)
                    /\ stock.volume = Some(0)
                    /\ stock.market_cap = Some(0)

\* C20 witness: create_stock of a lower-case symbol, the optional fields left
\* out, on a store that holds a record
C20_Witness ==
    /\ call.op = "create_stock"
    /\ ret.kind = "Stock"
    /\ call.symbol = <<"a">>
    /\ call.arg[1] = StockCreate(<<"a">>, "x", 1, <<>>)
    /\ Len(Data(before)) = 1
    /\ Len(Data(file)) = 2
    /\ Data(file)[2].val.symbol = Some(<<"A">>)
    /\ Data(file)[2].val.volume = Some(0)

\* C21: a create_stock or update_stock that ends by raising leaves the file
\* as it was: the file is written only by calls that return.
C21_AtomicOutcome ==
    (call.op \in {"create_stock", "update_stock"} /\ ret.kind \notin {"Stock", "None"})
        => file = before

\* C22: the symbol of every record of the persisted collection is a string
\* equal to its own upper case.
C22_SymbolsUpper ==
    \A i \in DOMAIN Data(file) :
        /\ Data(file)[i].val.symbol # None
        /\ Data(file)[i].val.symbol[1] = Upper(Data(file)[i].val.symbol[1])

\* C23: get_all_stocks returns the records of the persisted collection, each
\* once, in the order of their creation; update_stock keeps every record at
\* its position, and delete_stock removes one record and keeps the order of
\* the others.
C23_ListingOrder ==
    /\ get_all_stocks(file) = Ret("List", Values(Data(file)))
    /\ \A i, j \in DOMAIN Data(file) : i < j => Data(file)[i].key < Data(file)[j].key
    /\ (call.op = "update_stock" /\ call.id \in Keys(Data(before))) =>
          [i \in DOMAIN Data(file) |-> Data(file)[i].key]
              = [i \in DOMAIN Data(before) |-> Data(before)[i].key]
    /\ (call.op = "delete_stock" /\ ret.kind = "True") =>
          Data(file) = SelectSeq(Data(before), LAMBDA it : it.key # call.id)

\* the requests that read the whole collection: the listings and the stats
ReadOps ==
    {"app_get_all_stocks", "list_stocks_tool", "app_get_stats", "get_stats_resource",
     "get_stock_stats_tool"}

\* C24: once a create, update or delete has been made through either
\* instance, a listing or stats request through either instance leaves the
\* file alone and its store call returns the records of the collection as the
\* file holds it, that is as the last mutation persisted it.
C24_NoCachedState ==
    (call.op \in ReadOps /\ TheRequest.store # None /\ writes > 0) =>
        /\ file = before
        /\ StoreRet = Ret("List", Values(Data(file)))

\* the file is there and its content cannot be decoded as UTF-8 or cannot be
\* parsed as JSON
Malformed(f) ==
    /\ f.exists
    /\ \/ \E i \in DOMAIN f.content : f.content[i] = BadBytes
       \/ strip(f.content) # <<>> /\ loads(strip(f.content)).exc = "JSONDecodeError"

\* C25: create_stock on a file whose content is malformed returns the new
\* record, and the persisted collection is then that record alone.
C25_MalformedCreate ==
    (call.op = "create_stock" /\ Malformed(before)) =>
        /\ ret.kind = "Stock"
        /\ Data(file) = <<[key |-> ret.val[1].id, val |-> ret.val[1]]>>

\* the symbols of the records of a collection, in its order
SymbolsOf(items) == [i \in DOMAIN items |-> items[i].val.symbol]

\* C26: a start on a store that holds a record leaves the file as it was; a
\* start that changes the file found no record and leaves the five samples,
\* one record each, under ids never used before.
C26_SeedOnlyWhenEmpty ==
    call.op = "init_sample_data" =>
        /\ Data(before) # <<>> => file = before
        /\ file # before =>
              /\ Data(before) = <<>>
              /\ SymbolsOf(Data(file))
                    = [i \in 1..5 |-> Some(sample_stocks[i].symbol)]
              /\ [i \in 1..5 |-> Data(file)[i].key] = [i \in 1..5 |-> call.id + i - 1]

\* C26 witness: a start after the samples were created and the first of them
\* deleted: the four others are there and the first is not created again
C26_Witness ==
    /\ call.op = "init_sample_data"
    /\ file = before
    /\ SymbolsOf(Data(file)) = [i \in 1..4 |-> Some(sample_stocks[i + 1].symbol)]

\* what a stats entry point did: the stats it returned, or what it raised
Outcome(op, r) ==
    IF r.kind \in {"Stats", "Text", "Dict"} THEN Ret("stats", StatsOf(op, r)) ELSE r

\* C27: what one of the three stats entry points returned is what each of
\* GET /stats, the resource stock://stats and the tool get_stock_stats
\* computes from the same file: the same stats, the three-field ones of the
\* empty collection included, or the same exception.
C27_SameStats ==
    call.op \in StatsOps =>
        /\ file = before
        /\ Outcome(call.op, ret) = Outcome("get_stats", get_stats(file))
        /\ Outcome(call.op, ret) = Outcome("get_stats_resource", get_stats_resource(file))
        /\ Outcome(call.op, ret) = Outcome("get_stock_stats_tool", get_stock_stats_tool(file))

\* C27 witness: the resource read on three records with prices 1, 2, 2 gives
\* the text of the stats that GET /stats returns, the average 1.67
C27_Witness ==
    /\ call.op = "get_stats_resource"
    /\ ret.kind = "Text"
    /\ Len(Data(file)) = 3
    /\ json_loads(ret.val).avg_price = 167
    /\ json_loads(ret.val).max_price = <<"B">>
    /\ get_stats(file).val = json_loads(ret.val)
    /\ get_stock_stats_tool(file).val.stats = json_loads(ret.val)

====
